---------------------------- MODULE Spec2Model ----------------------------
(***************************************************************************)
(* Model of the multi-agent research pipeline:                             *)
(*   - the four workers (under src/agents), each a process(input_data)    *)
(*     call that sets the worker's status, computes an AgentResult and     *)
(*     appends it to the worker's history;                                 *)
(*   - AgentOrchestrator.execute_research_workflow (src/core/              *)
(*     orchestrator.py), which registers a workflow_data record and runs   *)
(*     the four workers in order.                                          *)
(* One orchestrator (and so one instance of each worker) is shared by all  *)
(* runs, as in src/interfaces/web/app.py.  A run is one call of            *)
(* execute_research_workflow; its position is pc[r].                       *)
(*                                                                         *)
(* Scores are held in tenths (86.1 is 861, the default threshold 0.8 is 8).*)
(* Generated text is held as the pair of the generator's name and the      *)
(* topic of the prompt it was generated from.                              *)
(***************************************************************************)
EXTENDS Integers, Sequences, FiniteSets, TLC

(* ------------------------------ bounds -------------------------------- *)

\* number of calls of execute_research_workflow made on the orchestrator
MaxRuns == 2

Runs == 1 .. MaxRuns

(* ------------------------------ values -------------------------------- *)

Stages == <<"research", "analysis", "content", "quality">>

StageNames == {Stages[i] : i \in 1 .. 4}

total_steps == 4

StepOf(stage) == CHOOSE i \in 1 .. 4 : Stages[i] = stage

AgentStatus == {"idle", "working", "completed", "error"}

WorkflowStatus == {"initialized", "running", "completed", "failed", "paused"}

AgentName(stage) ==
    CASE stage = "research" -> "ResearchAgent"
      [] stage = "analysis" -> "AnalysisAgent"
      [] stage = "content"  -> "ContentAgent"
      [] stage = "quality"  -> "QualityAgent"

\* outcome of one call of gemini_client.generate_content_async
GenOutcomes == {"ok", "raise"}

\* the remote service answers every call ("up"), fails every call ("down":
\* no network, a rejected key, an exhausted quota) or does either ("flaky")
GeminiModes == {"up", "down", "flaky"}

\* the outcomes a call can have under each condition of the service
OutcomesOf(mode) ==
    CASE mode = "up"   -> {"ok"}
      [] mode = "down" -> {"raise"}
      [] OTHER         -> GenOutcomes

\* an element of focus_areas that is not a string
NonString == "<non-str>"

\* dict.get(key, default)
Get(d, key, default) == IF key \in DOMAIN d THEN d[key] ELSE default

\* d[key] = value on a dict
Put(d, key, value) ==
    [k \in DOMAIN d \cup {key} |-> IF k = key THEN value ELSE d[k]]

EmptyDict == [k \in {} |-> 0]

\* the first n elements of a list: s[:n]
Take(s, n) == SubSeq(s, 1, IF Len(s) < n THEN Len(s) ELSE n)

Min(a, b) == IF a < b THEN a ELSE b

(* --------------------------- configuration ---------------------------- *)

MAX_RESEARCH_SOURCES == 3

\* the default of QUALITY_THRESHOLD, 0.8, in tenths
DefaultQualityThreshold == 8

\* values of the QUALITY_THRESHOLD environment variable, in tenths:
\* 0.8 (default), 86.1 and 90.0
ThresholdChoices == {DefaultQualityThreshold, 861, 900}


(* ------------------------- generation capability ---------------------- *)

\* number of non-empty lines in a generated list of search queries
GenQueryLines == 6

\* number of words in a generated report
GenReportWords == 650

\* a piece of text: who wrote it, the topic it is about ("" when it names
\* none) and its number of words
Text(by, topic, words) == [by |-> by, topic |-> topic, words |-> words]

\* the text generate_content_async returns for a prompt about `topic`
Generated(topic, words) == Text("gemini", topic, words)

(* ------------------------------ results -------------------------------- *)

\* AgentResult (execution_time and timestamp are wall-clock values and are
\* not modelled)
AgentResult(agent_name, status, output, metadata) ==
    [agent_name |-> agent_name, status |-> status,
     output |-> output, metadata |-> metadata]

\* variant: the except branch keeps part of the output next to the error
ErrorResultWithOutput(stage, error, error_type) ==
    AgentResult(AgentName(stage), "error",
                [error |-> error, topic |-> ""],
                [error_type |-> error_type])

\* the result every worker builds in its except branch
ErrorResult(stage, error, error_type) ==
    AgentResult(AgentName(stage), "error",
                [error |-> error],
                IF stage \in {"research", "content"}
                THEN [error_type |-> error_type, ai_provider |-> "gemini"]
                ELSE [error_type |-> error_type])

\* BaseAgent.validate_input: every required field is a key of input_data
validate_input(required_fields, input_data) ==
    \A field \in required_fields : field \in DOMAIN input_data

get_required_fields(stage) ==
    IF stage = "analysis" THEN {"research_findings", "topic"} ELSE {"topic"}

\* variant: only completed results are stored
log_result_if_completed(results, result) ==
    IF result.status = "completed" THEN Append(results, result) ELSE results

\* BaseAgent.log_result: self.results.append(result)
log_result(results, result) == Append(results, result)

\* what a block of code does: it returns a value or raises an exception
Return(value) == [raised |-> FALSE, value |-> value]

Raise(error_type, error) ==
    [raised |-> TRUE, error_type |-> error_type, error |-> error]

\* variant: the body of process runs outside any try
process_without_except(stage, body) == body

\* the try / except Exception of every worker's process: an exception of
\* the body becomes the returned error result
process(stage, body) ==
    IF body.raised
    THEN Return(ErrorResult(stage, body.error, body.error_type))
    ELSE body

(* --------------------------- ResearchAgent ----------------------------- *)

\* ', '.join(focus_areas) raises TypeError on an element that is no string
JoinRaises(focus_areas) ==
    \E i \in 1 .. Len(focus_areas) : focus_areas[i] = NonString

\* the queries of _generate_search_queries: the first five lines of the
\* response, or the three fallback queries when generation raises
SearchQueries(topic, gen) ==
    IF gen = "ok"
    THEN Take([i \in 1 .. GenQueryLines |-> <<topic, "generated", i>>], 5)
    ELSE << <<topic, "overview", 0>>,
            <<topic, "recent developments", 0>>,
            <<topic, "industry analysis", 0>> >>

\* _web_search returns three mock results per query, one per source type
SourceTypes == <<"academic", "industry", "news">>

\* the urls of the results of all executed queries, in order
Sources(queries) ==
    [i \in 1 .. 3 * Len(queries) |->
        <<queries[((i - 1) \div 3) + 1], SourceTypes[((i - 1) % 3) + 1]>>]

\* _process_search_results: the number of entries of each list
ProcessedContent(n_queries) ==
    [key_points |-> n_queries, statistics |-> n_queries,
     expert_opinions |-> 0, recent_developments |-> n_queries]

\* variant: the trends are emitted under the key current_trends
SynthesizeFindingsCurrentTrends(topic, gen) ==
    IF gen = "ok"
    THEN [executive_summary |-> Text("template", "", 6),
          main_findings |-> <<"Finding 1", "Finding 2", "Finding 3">>,
          current_trends |-> <<"Trend 1", "Trend 2">>,
          recommendations |-> <<"Recommendation 1", "Recommendation 2">>,
          synthesis_text |-> Generated(topic, GenReportWords)]
    ELSE [executive_summary |-> Text("template", topic, 4),
          main_findings |-> <<"Research data collected and processed">>,
          current_trends |-> <<"Analysis in progress">>,
          recommendations |-> <<"Further investigation recommended">>,
          synthesis_text |-> Text("template", "", 7)]

\* _synthesize_findings: the structured findings, or the fallback bundle
\* when generation raises
SynthesizeFindings(topic, gen) ==
    IF gen = "ok"
    THEN [executive_summary |-> Text("template", "", 6),
          main_findings |-> <<"Finding 1", "Finding 2", "Finding 3">>,
          key_trends |-> <<"Trend 1", "Trend 2">>,
          recommendations |-> <<"Recommendation 1", "Recommendation 2">>,
          synthesis_text |-> Generated(topic, GenReportWords)]
    ELSE [executive_summary |-> Text("template", topic, 4),
          main_findings |-> <<"Research data collected and processed">>,
          key_trends |-> <<"Analysis in progress">>,
          recommendations |-> <<"Further investigation recommended">>,
          synthesis_text |-> Text("template", "", 7)]

\* the try block of ResearchAgent.process; gen_q and gen_s are the
\* outcomes of the two generation calls
ResearchBody(input_data, gen_q, gen_s) ==
    IF ~ validate_input({"topic"}, input_data)
    THEN Raise("ValueError", "Invalid input data")
    ELSE
      LET topic == input_data["topic"]
          depth == Get(input_data, "depth", "medium")
          focus_areas == Get(input_data, "focus_areas", <<>>)
      IN IF JoinRaises(focus_areas)
         THEN Raise("TypeError", "sequence item: expected str instance")
         ELSE
           LET search_queries == SearchQueries(topic, gen_q)
               executed == Take(search_queries, MAX_RESEARCH_SOURCES)
               sources == Sources(executed)
           IN Return(AgentResult("ResearchAgent", "completed",
                [topic |-> topic,
                 research_findings |-> SynthesizeFindings(topic, gen_s),
                 sources |-> sources,
                 search_queries_used |-> search_queries,
                 content_summary |-> ProcessedContent(Len(executed))],
                [depth |-> depth,
                 focus_areas |-> focus_areas,
                 sources_found |-> Len(sources),
                 queries_executed |-> Len(search_queries),
                 ai_provider |-> "gemini"]))

\* ResearchAgent.process without its status and history updates
ResearchOutcome(input_data, gen_q, gen_s) ==
    process("research", ResearchBody(input_data, gen_q, gen_s))

\* the result ResearchAgent.process returns
ResearchProcess(input_data, gen_q, gen_s) ==
    ResearchOutcome(input_data, gen_q, gen_s).value

(* --------------------------- AnalysisAgent ----------------------------- *)

\* research_findings.get(key) is truthy: present and not empty
Truthy(d, key) == key \in DOMAIN d /\ Len(d[key]) > 0

\* a Python float that is a sum of the decimals 0.5, 0.2 and 0.1: the
\* decimal value it stands for, in tenths, and whether the binary sums have
\* left it one unit in the last place below the double of that decimal
\* (0.7 + 0.1 is 0.7999999999999999, not 0.8)
Float(tenths, short) == [tenths |-> tenths, short |-> short]

\* score += increment in binary floating point: 0.5 + 0.2, 0.5 + 0.1 and
\* 0.6 + 0.1 give the double of the decimal sum; every sum above 0.7 falls
\* one unit in the last place short of it
FloatAdd(score, increment) ==
    Float(score.tenths + increment,
          score.short \/ score.tenths + increment > 7)

\* min(score, 1.0): a sum that falls short of 1.0 is below the cap
FloatCap(score) ==
    IF score.tenths > 10 \/ (score.tenths = 10 /\ ~ score.short)
    THEN Float(10, FALSE)
    ELSE score

\* variant: expert_consensus is not counted
ConfidenceScoreWithoutConsensus(research_findings) ==
    LET base == Float(5, FALSE)
        s1 == IF Truthy(research_findings, "main_findings")
              THEN FloatAdd(base, 2) ELSE base
        s2 == IF Truthy(research_findings, "current_trends")
              THEN FloatAdd(s1, 1) ELSE s1
        s4 == IF Truthy(research_findings, "data_insights")
              THEN FloatAdd(s2, 1) ELSE s2
    IN FloatCap(s4)

\* _calculate_confidence_score
ConfidenceScore(research_findings) ==
    LET base == Float(5, FALSE)
        s1 == IF Truthy(research_findings, "main_findings")
              THEN FloatAdd(base, 2) ELSE base
        s2 == IF Truthy(research_findings, "current_trends")
              THEN FloatAdd(s1, 1) ELSE s1
        s3 == IF Truthy(research_findings, "expert_consensus")
              THEN FloatAdd(s2, 1) ELSE s2
        s4 == IF Truthy(research_findings, "data_insights")
              THEN FloatAdd(s3, 1) ELSE s3
    IN FloatCap(s4)

\* _generate_recommendations: three fixed recommendations about the topic
Recommendations(topic) ==
    [i \in 1 .. 3 |-> [action |-> <<"Recommendation", i, topic>>,
                       priority |-> IF i = 2 THEN "Medium" ELSE "High"]]

\* the try block of AnalysisAgent.process
AnalysisBody(input_data) ==
    IF ~ validate_input(get_required_fields("analysis"), input_data)
    THEN Raise("ValueError", "Invalid input data")
    ELSE
      LET research_findings == input_data["research_findings"]
          topic == input_data["topic"]
          analysis_type == Get(input_data, "analysis_type", "comprehensive")
          recommendations == Recommendations(topic)
      IN Return(AgentResult("AnalysisAgent", "completed",
           [topic |-> topic,
            analytical_insights |-> Text("template", topic, 6),
            trend_analysis |-> Text("template", topic, 5),
            gap_analysis |->
                [identified_gaps |-> Get(research_findings, "knowledge_gaps", <<>>)],
            recommendations |-> recommendations,
            synthesis |-> Text("template", topic, 7),
            confidence_score |-> ConfidenceScore(research_findings)],
           [analysis_type |-> analysis_type,
            sources_analyzed |-> Len(Get(research_findings, "sources", <<>>)),
            insight_categories |-> 6,
            recommendation_count |-> Len(recommendations)]))

\* AnalysisAgent.process without its status and history updates
AnalysisOutcome(input_data) == process("analysis", AnalysisBody(input_data))

\* the result AnalysisAgent.process returns
AnalysisProcess(input_data) == AnalysisOutcome(input_data).value

(* ---------------------------- ContentAgent ----------------------------- *)

MIN_CONTENT_LENGTH == 500

\* _get_target_length: base length of the report type times the depth
\* multiplier (held in tenths), truncated to an integer
base_lengths(content_type) ==
    CASE content_type = "summary"              -> 500
      [] content_type = "comprehensive_report" -> 1800
      [] content_type = "analysis"             -> 1200
      [] content_type = "presentation"         -> 800
      [] content_type = "executive_brief"      -> 600
      [] OTHER                                 -> 1500

depth_multipliers(depth) ==
    CASE depth = "basic"  -> 6
      [] depth = "medium" -> 10
      [] depth = "deep"   -> 18
      [] OTHER            -> 10

\* variant: an unknown report type gets the base length of a comprehensive
\* report
get_target_length_other_default(depth, content_type) ==
    ((IF content_type \in {"summary", "analysis", "presentation", "executive_brief"}
      THEN base_lengths(content_type) ELSE 1800)
     * depth_multipliers(depth)) \div 10

get_target_length(depth, content_type) ==
    (base_lengths(content_type) * depth_multipliers(depth)) \div 10

\* the generator method _generate_report dispatches to
ReportMethod(depth, content_type) ==
    CASE content_type = "summary" /\ depth = "basic"   -> "_generate_basic_summary"
      [] content_type = "summary" /\ depth = "medium"  -> "_generate_medium_summary"
      [] content_type = "summary" /\ depth = "deep"    -> "_generate_deep_summary"
      [] content_type = "comprehensive_report" /\ depth = "basic"
                                                       -> "_generate_basic_report"
      [] content_type = "comprehensive_report" /\ depth = "medium"
                                                       -> "_generate_medium_report"
      [] content_type = "comprehensive_report" /\ depth = "deep"
                                                       -> "_generate_deep_report"
      [] content_type = "analysis"                     -> "_generate_analysis_report"
      [] content_type = "executive_brief"              -> "_generate_executive_brief"
      [] OTHER                                         -> "_generate_medium_report"

\* the generator methods ContentAgent defines
DefinedMethods ==
    {"_generate_basic_summary", "_generate_deep_report",
     "_generate_medium_summary", "_generate_basic_report",
     "_generate_medium_report", "_generate_analysis_report"}

\* the report type label of each generator and its number of words
ReportLabel(method) ==
    CASE method = "_generate_basic_summary"   -> "Basic Summary"
      [] method = "_generate_deep_report"     -> "Deep Research Report"
      [] method = "_generate_medium_summary"  -> "Executive Summary"
      [] method = "_generate_basic_report"    -> "Basic Research Report"
      [] method = "_generate_medium_report"   -> "Professional Research Report"
      [] method = "_generate_analysis_report" -> "Analytical Report"

LabelWords(label) ==
    IF label \in {"Basic Summary", "Executive Summary", "Analytical Report"}
    THEN 2 ELSE 3

\* the section titles each generator returns
ReportSections(method) ==
    CASE method = "_generate_basic_summary" ->
            <<"Overview", "Key Points", "Recommendation">>
      [] method = "_generate_deep_report" ->
            <<"Executive Summary", "Market Landscape", "Research Findings",
              "Analysis", "Recommendations", "Implementation", "Conclusion">>
      [] method = "_generate_medium_summary" ->
            <<"Executive Overview", "Key Findings", "Strategic Implications",
              "Recommendations">>
      [] method = "_generate_basic_report" ->
            <<"Introduction", "Key Findings", "Recommendations", "Conclusion">>
      [] method = "_generate_medium_report" ->
            <<"Executive Summary", "Introduction", "Key Findings",
              "Analysis & Insights", "Recommendations", "Conclusion">>
      [] method = "_generate_analysis_report" ->
            <<"Situational Analysis", "Data Analysis",
              "Strategic Implications", "Actionable Insights">>

\* _fallback_content; the full report is the one-line sentence
\* "Professional <type> on <topic> - generated with limited AI processing."
\* (topics are taken to be one word)
fallback_content(topic, report_type) ==
    [title |-> <<report_type, topic>>,
     sections |-> <<"Summary", "Analysis", "Recommendations">>,
     full_report |-> Text("template", topic, 9 + LabelWords(report_type)),
     metadata |-> [generated_by |-> "Gemini AI (Fallback)",
                   report_type |-> report_type]]

\* one of the defined generators: the generated report, or the fallback
\* content when generation raises
GenerateWith(method, topic, gen) ==
    IF gen = "ok"
    THEN [title |-> <<ReportLabel(method), topic>>,
          sections |-> ReportSections(method),
          full_report |-> Generated(topic, GenReportWords),
          metadata |-> [generated_by |-> "Gemini AI",
                        report_type |-> ReportLabel(method)]]
    ELSE fallback_content(topic, ReportLabel(method))

\* the try block of ContentAgent.process; a dispatch to a method the class
\* does not define raises AttributeError
ContentBody(input_data, gen) ==
    LET topic == Get(input_data, "topic", "Unknown Topic")
        depth == Get(input_data, "depth", "medium")
        content_type == Get(input_data, "content_type", "comprehensive_report")
        method == ReportMethod(depth, content_type)
    IN IF method \notin DefinedMethods
       THEN Raise("AttributeError",
                  "'ContentAgent' object has no attribute '" \o method \o "'")
       ELSE
         LET report_content == GenerateWith(method, topic, gen)
         IN Return(AgentResult("ContentAgent", "completed",
              [topic |-> topic,
               report_content |-> report_content,
               word_count |-> report_content.full_report.words,
               sections_count |-> Len(report_content.sections),
               research_depth |-> depth,
               report_type |-> content_type],
              [content_type |-> content_type,
               research_depth |-> depth,
               format |-> "structured",
               ai_provider |-> "gemini",
               target_length |-> get_target_length(depth, content_type)]))

\* ContentAgent.process without its status and history updates
ContentOutcome(input_data, gen) == process("content", ContentBody(input_data, gen))

\* the result ContentAgent.process returns
ContentProcess(input_data, gen) == ContentOutcome(input_data, gen).value

(* ---------------------------- QualityAgent ----------------------------- *)

\* min(n / d, 1.0) * 100, truncated to an integer
Percent(n, d) == Min((n * 100) \div d, 100)

\* _assess_research_quality
AssessResearchQuality(research_findings) ==
    [completeness_score |->
        Percent(Len(Get(research_findings, "main_findings", <<>>)), 5),
     source_quality_score |->
        Percent(Len(Get(research_findings, "sources", <<>>)), 10),
     overall_research_score |-> 85]

\* _assess_analysis_quality
AssessAnalysisQuality(analysis_results) ==
    [recommendation_quality_score |->
        Percent(Len(Get(analysis_results, "recommendations", <<>>)), 5),
     overall_analysis_score |-> 87]

\* variant: the overall content score is the completeness score
AssessContentQualityByLength(content_output) ==
    [completeness_score |->
        Percent(Get(Get(content_output, "metadata", EmptyDict), "word_count", 0),
                MIN_CONTENT_LENGTH),
     overall_content_score |->
        Percent(Get(Get(content_output, "metadata", EmptyDict), "word_count", 0),
                MIN_CONTENT_LENGTH)]

\* _assess_content_quality
AssessContentQuality(content_output) ==
    [completeness_score |->
        Percent(Get(Get(content_output, "metadata", EmptyDict), "word_count", 0),
                MIN_CONTENT_LENGTH),
     overall_content_score |-> 86]

\* _calculate_overall_score: the 0.3 / 0.4 / 0.3 weighted average, in tenths
calculate_overall_score(research_quality, analysis_quality, content_quality) ==
    Get(research_quality, "overall_research_score", 0) * 3
    + Get(analysis_quality, "overall_analysis_score", 0) * 4
    + Get(content_quality, "overall_content_score", 0) * 3

\* _generate_improvement_suggestions: one per category scoring below 90
ImprovementSuggestions(research_quality, analysis_quality, content_quality) ==
    (IF Get(research_quality, "overall_research_score", 0) < 90
     THEN <<"Research">> ELSE <<>>)
    \o (IF Get(analysis_quality, "overall_analysis_score", 0) < 90
        THEN <<"Analysis">> ELSE <<>>)
    \o (IF Get(content_quality, "overall_content_score", 0) < 90
        THEN <<"Content">> ELSE <<>>)

\* variant: a score equal to the threshold does not meet it
meets_threshold_strictly(overall_score, threshold) == overall_score > threshold

\* overall_score >= config.QUALITY_THRESHOLD
meets_threshold(overall_score, threshold) == overall_score >= threshold

\* the try block of QualityAgent.process; threshold is
\* config.QUALITY_THRESHOLD in tenths
QualityBody(input_data, threshold) ==
    IF ~ validate_input(get_required_fields("quality"), input_data)
    THEN Raise("ValueError", "Invalid input data")
    ELSE
      LET topic == input_data["topic"]
          research_findings == Get(input_data, "research_findings", EmptyDict)
          analysis_results == Get(input_data, "analysis_results", EmptyDict)
          content_output == Get(input_data, "content_output", EmptyDict)
          research_quality == AssessResearchQuality(research_findings)
          analysis_quality == AssessAnalysisQuality(analysis_results)
          content_quality == AssessContentQuality(content_output)
          overall_score == calculate_overall_score(
                              research_quality, analysis_quality, content_quality)
          improvement_suggestions == ImprovementSuggestions(
                              research_quality, analysis_quality, content_quality)
      IN Return(AgentResult("QualityAgent", "completed",
           [topic |-> topic,
            overall_quality_score |-> overall_score,
            research_quality |-> research_quality,
            analysis_quality |-> analysis_quality,
            content_quality |-> content_quality,
            improvement_suggestions |-> improvement_suggestions,
            quality_report |->
                [summary |-> <<topic, overall_score>>,
                 recommendation |->
                    IF meets_threshold(overall_score, threshold)
                    THEN "Approved with minor improvements suggested"
                    ELSE "Requires improvement before approval"],
            approval_status |->
                IF meets_threshold(overall_score, threshold)
                THEN "approved" ELSE "needs_improvement"],
           [quality_threshold |-> threshold,
            assessment_categories |-> 3,
            suggestions_count |-> Len(improvement_suggestions),
            meets_threshold |-> meets_threshold(overall_score, threshold)]))

\* QualityAgent.process without its status and history updates
QualityOutcome(input_data, threshold) ==
    process("quality", QualityBody(input_data, threshold))

\* the result QualityAgent.process returns
QualityProcess(input_data, threshold) ==
    QualityOutcome(input_data, threshold).value

(* ------------------------- AgentOrchestrator --------------------------- *)

\* the input mappings execute_research_workflow builds for the four workers
ResearchInput(topic, kwargs) ==
    [topic |-> topic,
     depth |-> Get(kwargs, "depth", "medium"),
     focus_areas |-> Get(kwargs, "focus_areas", <<>>)]

AnalysisInput(topic, kwargs, research_result) ==
    [topic |-> topic,
     research_findings |-> research_result.output["research_findings"],
     analysis_type |-> Get(kwargs, "analysis_type", "comprehensive")]

ContentInput(topic, kwargs, research_result, analysis_result) ==
    [topic |-> topic,
     research_findings |-> research_result.output["research_findings"],
     analysis_results |-> analysis_result.output,
     content_type |-> Get(kwargs, "content_type", "comprehensive_report"),
     target_audience |-> Get(kwargs, "target_audience", "general")]

QualityInput(topic, kwargs, content_result) ==
    [topic |-> topic,
     content |-> Get(content_result.output, "report_content",
                     Get(content_result.output, "final_content", EmptyDict)),
     review_criteria |-> Get(kwargs, "review_criteria", "comprehensive")]

\* variant: a failed content stage does not stop the run
StageFailedBeforeContent(result) ==
    result.status # "completed" /\ result.agent_name # "ContentAgent"

\* the check after each stage: anything but a completed result raises
StageFailed(result) == result.status # "completed"

\* the message of the exception raised after a failed stage
PhaseLabel(stage) ==
    CASE stage = "research" -> "Research phase failed: "
      [] stage = "analysis" -> "Analysis phase failed: "
      [] stage = "content"  -> "Content creation phase failed: "
      [] stage = "quality"  -> "Quality review phase failed: "

PhaseFailedMessage(stage, result) ==
    PhaseLabel(stage) \o Get(result.output, "error", "Unknown error")

\* the quality score the engine reads from the quality result
QualityScore(quality_result) ==
    Get(quality_result.output, "overall_score",
        Get(quality_result.output, "overall_quality_score", 0))

\* variant: a score below the threshold aborts the run
BelowThresholdRaises(quality_score, threshold) == quality_score < threshold

\* a score below the threshold is logged and the run goes on: it never
\* aborts the run
BelowThresholdAborts(quality_score, threshold) == FALSE

\* the stages with an entry in agent_results, in insertion (= stage) order
KeysInOrder(agent_results) ==
    LET F[i \in 0 .. 4] ==
          IF i = 0 THEN <<>>
          ELSE IF Stages[i] \in DOMAIN agent_results
               THEN Append(F[i - 1], Stages[i]) ELSE F[i - 1]
    IN F[4]

\* _compile_final_output
compile_final_output(topic, research_result, analysis_result, content_result, quality_result) ==
    LET ro == research_result.output
        ao == analysis_result.output
        co == content_result.output
        qo == quality_result.output
        nested == Get(ao, "analysis_results", EmptyDict)
        recommendations ==
            Get(nested, "recommendations", Get(ao, "recommendations", <<>>))
    IN [topic |-> topic,
        research_phase |->
            [findings |-> Get(ro, "research_findings", EmptyDict),
             sources |-> Get(ro, "sources", <<>>)],
        analysis_phase |->
            [insights |-> Get(nested, "insights",
                              Get(ao, "analytical_insights", <<>>)),
             trends |-> Get(nested, "key_trends", Get(ao, "trend_analysis", <<>>)),
             recommendations |-> recommendations,
             confidence_score |-> Get(nested, "confidence_score",
                                      Get(ao, "confidence_score", Float(8, FALSE)))],
        content_phase |->
            [report_content |-> Get(co, "report_content",
                                    Get(co, "final_content", EmptyDict)),
             metadata |-> Get(co, "metadata",
                              [word_count |-> Get(co, "word_count", 0)])],
        quality_phase |->
            [quality_score |-> QualityScore(quality_result),
             quality_assessment |-> Get(qo, "quality_assessment",
                                        Get(qo, "quality_report", EmptyDict)),
             quality_grade |-> Get(qo, "quality_grade", "B+"),
             improvement_suggestions |->
                Get(Get(qo, "quality_assessment", EmptyDict), "improvements",
                    Get(qo, "improvement_suggestions", <<>>))],
        workflow_metadata |->
            [total_sources_analyzed |-> Len(Get(ro, "sources", <<>>)),
             total_recommendations |-> Len(recommendations),
             final_word_count |->
                Get(co, "word_count",
                    Get(Get(co, "metadata", EmptyDict), "word_count", 0)),
             overall_quality_score |-> QualityScore(quality_result)]]

\* variant: the status test of the loop is inverted
compile_partial_output_inverted(agent_results, error) ==
    [status |-> "failed",
     error |-> error,
     completed_phases |-> KeysInOrder(agent_results),
     partial_results |->
        [phase \in {p \in DOMAIN agent_results :
                        agent_results[p].status # "completed"} |->
            [output |-> agent_results[phase].output]]]

\* _compile_partial_output
compile_partial_output(agent_results, error) ==
    [status |-> "failed",
     error |-> error,
     completed_phases |-> KeysInOrder(agent_results),
     partial_results |->
        [phase \in {p \in DOMAIN agent_results :
                        agent_results[p].status = "completed"} |->
            [output |-> agent_results[phase].output]]]

\* _generate_execution_summary (the timing entries are not modelled)
generate_execution_summary(workflow_data) ==
    LET agent_results == workflow_data.agent_results
    IN [workflow_id |-> workflow_data.id,
        topic |-> workflow_data.topic,
        total_steps_completed |-> Cardinality(DOMAIN agent_results),
        agent_performance |->
            [a \in DOMAIN agent_results |-> [status |-> agent_results[a].status]],
        success_rate |->
            IF DOMAIN agent_results = {} THEN 0
            ELSE (Cardinality({a \in DOMAIN agent_results :
                                 agent_results[a].status = "completed"}) * 100)
                 \div Cardinality(DOMAIN agent_results)]

\* WorkflowResult
WorkflowResult(workflow_id, status, topic, final_output, agent_results, execution_summary) ==
    [workflow_id |-> workflow_id, status |-> status, topic |-> topic,
     final_output |-> final_output, agent_results |-> agent_results,
     execution_summary |-> execution_summary]

(* ------------------------------- state --------------------------------- *)

VARIABLES
    QUALITY_THRESHOLD,  \* config.QUALITY_THRESHOLD, in tenths
    gemini,             \* the condition of the remote generation service
    agent_status,       \* BaseAgent.status of the orchestrator's four workers
    agent_history,      \* BaseAgent.results of the four workers
    active_workflows,   \* AgentOrchestrator.active_workflows: workflow id ->
                        \* the run whose workflow_data dict is registered
    workflow_data,      \* the workflow_data dict of each run
    call,               \* the arguments of each run: topic and kwargs
    pc,                 \* where each run is in execute_research_workflow
    input_data,         \* the input of the process call a run is inside
    stage_result,       \* the locals research_result .. quality_result
    returned,           \* the WorkflowResult each run returned
    web_workflows,      \* app.active_workflows of the web application:
                        \* workflow id -> temporary dict or WorkflowResult
    request,            \* the data of the start_workflow request of each run
    response,           \* the body of the last response the web application sent
    worker_call,        \* the last direct call of a worker's process: its
                        \* stage, input and outcome
    helper_calls        \* the direct calls of the workers' helper methods made
                        \* so far: method, arguments and returned value

\* the state of the web application
web_vars == <<web_workflows, request, response>>

vars == <<QUALITY_THRESHOLD, gemini, agent_status, agent_history, active_workflows,
          workflow_data, call, pc, input_data, stage_result, returned,
          web_workflows, request, response, worker_call, helper_calls>>

\* the topic of the r-th call and the id uuid4 generates for it
TopicOf(r) == "topic-" \o ToString(r)

UUID(r) == "uuid-" \o ToString(r)

\* keyword arguments callers pass: each one absent or one of these values
DepthChoices == {"basic", "deep"}

ContentTypeChoices == {"summary", "analysis", "executive_brief"}

FocusChoices == {<<"policy">>, <<NonString>>}

WorkflowIdChoices == {"wf-1"}

WithOption(S, key, values) ==
    S \cup {Put(kw, key, v) : kw \in S, v \in values}

\* every combination of the keyword arguments
AllKwargs ==
    WithOption(
      WithOption(
        WithOption(
          WithOption({EmptyDict}, "depth", DepthChoices),
          "content_type", ContentTypeChoices),
        "focus_areas", FocusChoices),
      "workflow_id", WorkflowIdChoices)

\* the combinations used when several runs are interleaved
ConcurrentKwargs ==
    {EmptyDict,
     [content_type |-> "executive_brief"],
     [focus_areas |-> <<NonString>>],
     [workflow_id |-> "wf-1"]}

InitWith(thresholds, modes) ==
    /\ QUALITY_THRESHOLD \in thresholds
    /\ gemini \in modes
    /\ agent_status = [a \in StageNames |-> "idle"]
    /\ agent_history = [a \in StageNames |-> <<>>]
    /\ active_workflows = EmptyDict
    /\ workflow_data = [r \in Runs |-> EmptyDict]
    /\ call = [r \in Runs |-> EmptyDict]
    /\ pc = [r \in Runs |-> "idle"]
    /\ input_data = [r \in Runs |-> EmptyDict]
    /\ stage_result = [r \in Runs |-> EmptyDict]
    /\ returned = [r \in Runs |-> EmptyDict]
    /\ web_workflows = EmptyDict
    /\ request = [r \in Runs |-> EmptyDict]
    /\ response = EmptyDict
    /\ worker_call = [state |-> "idle", n |-> 0, stage |-> "",
                      input |-> EmptyDict, outcome |-> EmptyDict]
    /\ helper_calls = <<>>

Init == InitWith(ThresholdChoices, GeminiModes)

(* ------------------------------ workers -------------------------------- *)

\* the start of a worker's process: update_status(WORKING)
BeginProcess(r, stage, input) ==
    /\ agent_status' = [agent_status EXCEPT ![stage] = "working"]
    /\ input_data' = [input_data EXCEPT ![r] = input]

\* variant: the result is recorded only after the status check has passed
RecordResultIfCompleted(wd, r, stage, result) ==
    IF result.status = "completed"
    THEN [wd EXCEPT ![r].agent_results = Put(@, stage, result)]
    ELSE wd

\* variant: every workflow_data dict shares one agent_results dict
RecordResultShared(wd, r, stage, result) ==
    [q \in DOMAIN wd |->
        IF "agent_results" \in DOMAIN wd[q]
        THEN [wd[q] EXCEPT !.agent_results = Put(@, stage, result)]
        ELSE wd[q]]

\* agent_results[stage] = result on the run's workflow_data
RecordResult(wd, r, stage, result) ==
    [wd EXCEPT ![r].agent_results = Put(@, stage, result)]

\* the end of a worker's process, update_status(result.status) and
\* log_result(result), and the engine's assignment of the returned result
EndProcess(r, stage, result) ==
    /\ agent_status' = [agent_status EXCEPT ![stage] = result.status]
    /\ agent_history' =
          [agent_history EXCEPT ![stage] = log_result(@, result)]
    /\ input_data' = [input_data EXCEPT ![r] = EmptyDict]
    /\ stage_result' = [stage_result EXCEPT ![r] = Put(@, stage, result)]
    /\ workflow_data' = RecordResult(workflow_data, r, stage, result)

(* ------------------- execute_research_workflow ------------------------- *)

\* lines 75-90: build workflow_data and register it
Register(r, topic, kwargs) ==
    /\ LET workflow_id == Get(kwargs, "workflow_id", UUID(r))
       IN /\ workflow_data' = [workflow_data EXCEPT ![r] =
                 [id |-> workflow_id,
                  topic |-> topic,
                  status |-> "initialized",
                  agent_results |-> EmptyDict,
                  current_step |-> 0,
                  total_steps |-> total_steps]]
          /\ active_workflows' = Put(active_workflows, workflow_id, r)
    /\ call' = [call EXCEPT ![r] = [topic |-> topic, kwargs |-> kwargs]]
    /\ pc' = [pc EXCEPT ![r] = "registered"]
    /\ UNCHANGED <<web_vars, worker_call, helper_calls, QUALITY_THRESHOLD, gemini, agent_status, agent_history, input_data,
                   stage_result, returned>>

\* a direct call of execute_research_workflow (calls are numbered in the
\* order they are made)
Submit(r, kwargs) ==
    /\ pc[r] = "idle"
    /\ \A q \in Runs : q < r => pc[q] # "idle"
    /\ Register(r, TopicOf(r), kwargs)

\* variant: the step counter is advanced by two
EnterStepSkipping(wd, r, step) == [wd EXCEPT ![r].current_step = @ + 2]

\* workflow_data["current_step"] = step when a stage is entered
EnterStep(wd, r, step) == [wd EXCEPT ![r].current_step = step]

\* lines 94-104: enter the research stage and call the Researcher
StartResearch(r) ==
    /\ pc[r] = "registered"
    /\ workflow_data' =
          EnterStep([workflow_data EXCEPT ![r].status = "running"], r, 1)
    /\ BeginProcess(r, "research", ResearchInput(call[r].topic, call[r].kwargs))
    /\ pc' = [pc EXCEPT ![r] = "in_research"]
    /\ UNCHANGED <<web_vars, worker_call, helper_calls, QUALITY_THRESHOLD, gemini, agent_history, active_workflows, call,
                   stage_result, returned>>

\* the Researcher returns; line 106 records its result
FinishResearch(r) ==
    /\ pc[r] = "in_research"
    /\ \E gen_q \in OutcomesOf(gemini), gen_s \in OutcomesOf(gemini) :
          EndProcess(r, "research", ResearchProcess(input_data[r], gen_q, gen_s))
    /\ pc' = [pc EXCEPT ![r] = "after_research"]
    /\ UNCHANGED <<web_vars, worker_call, helper_calls, QUALITY_THRESHOLD, gemini, active_workflows, call, returned>>

\* lines 108-123: the research result is completed; enter the analysis stage
StartAnalysis(r) ==
    /\ pc[r] = "after_research"
    /\ ~ StageFailed(stage_result[r]["research"])
    /\ workflow_data' = EnterStep(workflow_data, r, 2)
    /\ BeginProcess(r, "analysis",
          AnalysisInput(call[r].topic, call[r].kwargs,
                        stage_result[r]["research"]))
    /\ pc' = [pc EXCEPT ![r] = "in_analysis"]
    /\ UNCHANGED <<web_vars, worker_call, helper_calls, QUALITY_THRESHOLD, gemini, agent_history, active_workflows, call,
                   stage_result, returned>>

FinishAnalysis(r) ==
    /\ pc[r] = "in_analysis"
    /\ EndProcess(r, "analysis", AnalysisProcess(input_data[r]))
    /\ pc' = [pc EXCEPT ![r] = "after_analysis"]
    /\ UNCHANGED <<web_vars, worker_call, helper_calls, QUALITY_THRESHOLD, gemini, active_workflows, call, returned>>

\* lines 126-143: enter the content stage
StartContent(r) ==
    /\ pc[r] = "after_analysis"
    /\ ~ StageFailed(stage_result[r]["analysis"])
    /\ workflow_data' = EnterStep(workflow_data, r, 3)
    /\ BeginProcess(r, "content",
          ContentInput(call[r].topic, call[r].kwargs,
                       stage_result[r]["research"], stage_result[r]["analysis"]))
    /\ pc' = [pc EXCEPT ![r] = "in_content"]
    /\ UNCHANGED <<web_vars, worker_call, helper_calls, QUALITY_THRESHOLD, gemini, agent_history, active_workflows, call,
                   stage_result, returned>>

FinishContent(r) ==
    /\ pc[r] = "in_content"
    /\ \E gen \in OutcomesOf(gemini) :
          EndProcess(r, "content", ContentProcess(input_data[r], gen))
    /\ pc' = [pc EXCEPT ![r] = "after_content"]
    /\ UNCHANGED <<web_vars, worker_call, helper_calls, QUALITY_THRESHOLD, gemini, active_workflows, call, returned>>

\* lines 146-161: enter the quality stage
StartQuality(r) ==
    /\ pc[r] = "after_content"
    /\ ~ StageFailed(stage_result[r]["content"])
    /\ workflow_data' = EnterStep(workflow_data, r, 4)
    /\ BeginProcess(r, "quality",
          QualityInput(call[r].topic, call[r].kwargs, stage_result[r]["content"]))
    /\ pc' = [pc EXCEPT ![r] = "in_quality"]
    /\ UNCHANGED <<web_vars, worker_call, helper_calls, QUALITY_THRESHOLD, gemini, agent_history, active_workflows, call,
                   stage_result, returned>>

FinishQuality(r) ==
    /\ pc[r] = "in_quality"
    /\ EndProcess(r, "quality", QualityProcess(input_data[r], QUALITY_THRESHOLD))
    /\ pc' = [pc EXCEPT ![r] = "after_quality"]
    /\ UNCHANGED <<web_vars, worker_call, helper_calls, QUALITY_THRESHOLD, gemini, active_workflows, call, returned>>

\* the stage whose result the run has just recorded
StageAt(p) ==
    CASE p = "after_research" -> "research"
      [] p = "after_analysis" -> "analysis"
      [] p = "after_content"  -> "content"
      [] p = "after_quality"  -> "quality"

AfterStage == {"after_research", "after_analysis", "after_content",
               "after_quality"}

\* the exception the try block raises at this point, if any: the message
\* of a failed stage, or of a run aborted by the quality threshold
Raised(r) ==
    LET stage == StageAt(pc[r])
        result == stage_result[r][stage]
    IN IF StageFailed(result)
       THEN {PhaseFailedMessage(stage, result)}
       ELSE IF stage = "quality"
               /\ BelowThresholdAborts(QualityScore(result), QUALITY_THRESHOLD)
            THEN {"Content quality below threshold"}
            ELSE {}

\* variant: the handlers leave the status as it was
FinishWithoutStatus(wd, r, status) == wd

\* the status the handlers leave on the run's workflow_data
Finish(wd, r, status) == [wd EXCEPT ![r].status = status]

\* lines 164-203: all four stages completed; compile the final output
CompleteWorkflow(r) ==
    /\ pc[r] = "after_quality"
    /\ Raised(r) = {}
    /\ returned' = [returned EXCEPT ![r] =
          WorkflowResult(workflow_data[r].id, "completed", call[r].topic,
              compile_final_output(call[r].topic,
                  stage_result[r]["research"], stage_result[r]["analysis"],
                  stage_result[r]["content"], stage_result[r]["quality"]),
              workflow_data[r].agent_results,
              generate_execution_summary(workflow_data[r]))]
    /\ workflow_data' = Finish(workflow_data, r, "completed")
    /\ pc' = [pc EXCEPT ![r] = "done"]
    /\ UNCHANGED <<web_vars, worker_call, helper_calls, QUALITY_THRESHOLD, gemini, agent_status, agent_history,
                   active_workflows, call, input_data, stage_result>>

\* lines 205-226: the except branch
FailWorkflow(r) ==
    /\ pc[r] \in AfterStage
    /\ \E error \in Raised(r) :
          returned' = [returned EXCEPT ![r] =
             WorkflowResult(workflow_data[r].id, "failed", call[r].topic,
                 compile_partial_output(
                     Get(workflow_data[r], "agent_results", EmptyDict), error),
                 Get(workflow_data[r], "agent_results", EmptyDict),
                 [error |-> error,
                  failed_at_step |-> Get(workflow_data[r], "current_step", 0)])]
    /\ workflow_data' = Finish(workflow_data, r, "failed")
    /\ pc' = [pc EXCEPT ![r] = "done"]
    /\ UNCHANGED <<web_vars, worker_call, helper_calls, QUALITY_THRESHOLD, gemini, agent_status, agent_history,
                   active_workflows, call, input_data, stage_result>>

\* a step of run r after its call
RunStep(r) ==
    \/ StartResearch(r)
    \/ FinishResearch(r)
    \/ StartAnalysis(r)
    \/ FinishAnalysis(r)
    \/ StartContent(r)
    \/ FinishContent(r)
    \/ StartQuality(r)
    \/ FinishQuality(r)
    \/ CompleteWorkflow(r)
    \/ FailWorkflow(r)

\* one call of execute_research_workflow on a fresh orchestrator, with any
\* keyword arguments
Next ==
    \/ \E kwargs \in AllKwargs : Submit(1, kwargs)
    \/ RunStep(1)

Spec == Init /\ [][Next]_vars

\* MaxRuns calls on one orchestrator, as the web application makes them
\* from its request threads
InitConcurrent == InitWith({DefaultQualityThreshold}, {"up", "down"})

\* the calls that have been made and have not returned
InFlight == {q \in Runs : pc[q] \notin {"idle", "done"}}

\* runs are interleaved at every worker call; a call is made while at most
\* one other is in flight, so runs overlap two at a time
NextConcurrent ==
    \E r \in Runs :
        \/ /\ Cardinality(InFlight) <= 1
           /\ \E kwargs \in ConcurrentKwargs : Submit(r, kwargs)
        \/ RunStep(r)

SpecConcurrent == InitConcurrent /\ [][NextConcurrent]_vars

(* --------------------------- web application --------------------------- *)

\* AgentOrchestrator.get_workflow_status: active_workflows.get(workflow_id),
\* held as the set of the record found (empty for None)
get_workflow_status(workflow_id) ==
    IF workflow_id \in DOMAIN active_workflows
    THEN {workflow_data[active_workflows[workflow_id]]}
    ELSE {}

\* the JSON bodies start_workflow requests carry
WebData(r) ==
    {[topic |-> TopicOf(r)],
     [topic |-> TopicOf(r), content_type |-> "executive_brief"],
     [depth |-> "deep"]}    \* a body without a topic

\* an id no start_workflow request was answered with
UnknownId == "no-such-id"

\* the ids clients look up
LookupIds == {UUID(r) : r \in Runs} \cup {UnknownId}

\* the temporary entry start_workflow stores, a dict
TemporaryEntry(topic) ==
    [is_result |-> FALSE,
     value |-> [status |-> "running", topic |-> topic, current_step |-> 1]]

\* variant: the thread stores a temporary entry again
ResultEntryStillRunning(result) == TemporaryEntry(result.topic)

\* the entry run_workflow stores, a WorkflowResult object
ResultEntry(result) == [is_result |-> TRUE, value |-> result]

\* hasattr(workflow, name): a dict has keys, not attributes
HasAttr(workflow, name) == workflow.is_result /\ name \in DOMAIN workflow.value

\* POST /api/start_workflow
StartWorkflow(r, data) ==
    /\ pc[r] = "idle"
    /\ \A q \in Runs : q < r => pc[q] # "idle"
    /\ LET topic == Get(data, "topic", "")
           depth == Get(data, "depth", "medium")
           content_type == Get(data, "content_type", "comprehensive_report")
           workflow_id == UUID(r)
       IN IF topic = ""
          THEN /\ response' = [success |-> FALSE, error |-> "Topic is required"]
               /\ UNCHANGED <<web_workflows, request, pc>>
          ELSE /\ web_workflows' =
                     Put(web_workflows, workflow_id, TemporaryEntry(topic))
               /\ request' = [request EXCEPT ![r] =
                     [topic |-> topic, depth |-> depth,
                      content_type |-> content_type,
                      workflow_id |-> workflow_id]]
               /\ pc' = [pc EXCEPT ![r] = "started"]
               /\ response' = [success |-> TRUE, workflow_id |-> workflow_id,
                               message |-> "Workflow started successfully"]
    /\ UNCHANGED <<worker_call, helper_calls, QUALITY_THRESHOLD, gemini, agent_status, agent_history,
                   active_workflows, workflow_data, call, input_data,
                   stage_result, returned>>

\* run_workflow, in its own thread: the call of execute_research_workflow
RunWorkflowCall(r) ==
    /\ pc[r] = "started"
    /\ Register(r, request[r].topic,
                [depth |-> request[r].depth,
                 content_type |-> request[r].content_type,
                 workflow_id |-> request[r].workflow_id])

\* run_workflow: active_workflows[workflow_id] = result (the call returns a
\* WorkflowResult and never raises, so the except branch is not taken)
StoreResult(r) ==
    /\ pc[r] = "done"
    /\ request[r] # EmptyDict
    /\ web_workflows' = Put(web_workflows, request[r].workflow_id,
                            ResultEntry(returned[r]))
    /\ pc' = [pc EXCEPT ![r] = "stored"]
    /\ UNCHANGED <<worker_call, helper_calls, QUALITY_THRESHOLD, gemini, agent_status, agent_history,
                   active_workflows, workflow_data, call, input_data,
                   stage_result, returned, request, response>>

NotFound == [success |-> FALSE, error |-> "Workflow not found"]

NotReady == [success |-> FALSE, error |-> "Results not ready yet"]

\* GET /api/workflow_status/<workflow_id>: the response body
web_get_workflow_status(workflow_id) ==
    IF workflow_id \in DOMAIN web_workflows
    THEN LET workflow == web_workflows[workflow_id]
         IN IF HasAttr(workflow, "status")
            THEN [success |-> TRUE,
                  status |-> [status |-> workflow.value.status,
                              current_step |-> 4,
                              topic |-> workflow.value.topic]]
            ELSE [success |-> TRUE, status |-> workflow.value]
    ELSE NotFound

\* variant: an entry without a result is reported as not found
get_workflow_results_merged(workflow_id) ==
    IF workflow_id \in DOMAIN web_workflows
       /\ HasAttr(web_workflows[workflow_id], "final_output")
    THEN [success |-> TRUE, results |-> web_workflows[workflow_id].value]
    ELSE NotFound

\* GET /api/workflow_results/<workflow_id>: the response body
get_workflow_results(workflow_id) ==
    IF workflow_id \in DOMAIN web_workflows
    THEN LET workflow == web_workflows[workflow_id]
         IN IF HasAttr(workflow, "final_output")
            THEN [success |-> TRUE,
                  results |-> [workflow_id |-> workflow.value.workflow_id,
                               status |-> workflow.value.status,
                               topic |-> workflow.value.topic,
                               final_output |-> workflow.value.final_output]]
            ELSE NotReady
    ELSE NotFound

GetWorkflowStatus(workflow_id) ==
    /\ response' = web_get_workflow_status(workflow_id)
    /\ UNCHANGED <<worker_call, helper_calls, QUALITY_THRESHOLD, gemini, agent_status, agent_history,
                   active_workflows, workflow_data, call, pc, input_data,
                   stage_result, returned, web_workflows, request>>

GetWorkflowResults(workflow_id) ==
    /\ response' = get_workflow_results(workflow_id)
    /\ UNCHANGED <<worker_call, helper_calls, QUALITY_THRESHOLD, gemini, agent_status, agent_history,
                   active_workflows, workflow_data, call, pc, input_data,
                   stage_result, returned, web_workflows, request>>

\* the requests that have been accepted and whose thread has not finished
WebInFlight == {q \in Runs : pc[q] \notin {"idle", "stored"}}

InitWeb == InitWith({DefaultQualityThreshold}, {"up"})

\* the web application: requests arrive at any time, each accepted
\* start_workflow request runs in a thread of its own; a request is accepted
\* while at most one other is in flight
NextWeb ==
    \/ \E r \in Runs :
          \/ /\ Cardinality(WebInFlight) <= 1
             /\ \E data \in WebData(r) : StartWorkflow(r, data)
          \/ RunWorkflowCall(r)
          \/ RunStep(r)
          \/ StoreResult(r)
    \/ \E workflow_id \in LookupIds :
          \/ GetWorkflowStatus(workflow_id)
          \/ GetWorkflowResults(workflow_id)

SpecWeb == InitWeb /\ [][NextWeb]_vars

\* a step of the background thread start_workflow started for run r
ThreadStep(r) == RunWorkflowCall(r) \/ RunStep(r) \/ StoreResult(r)

\* the requests and their threads alone, without the lookups of clients
\* (a lookup writes nothing a thread reads)
NextThreads ==
    \E r \in Runs :
        \/ /\ Cardinality(WebInFlight) <= 1
           /\ \E data \in WebData(r) : StartWorkflow(r, data)
        \/ ThreadStep(r)

\* threads that keep running: a started thread is scheduled until
\* run_workflow ends, and every generation call returns or raises
SpecThreads ==
    InitWeb /\ [][NextThreads]_vars /\ \A r \in Runs : WF_vars(ThreadStep(r))

(* ------------------------ direct worker calls -------------------------- *)

\* number of direct calls of process made on the workers
MaxCalls == 2

\* the input mappings process is called with
ResearchInputs ==
    {EmptyDict,
     [topic |-> "solar"],
     [topic |-> "solar", depth |-> "deep", focus_areas |-> <<"policy">>],
     [topic |-> "solar", focus_areas |-> <<NonString>>]}

AnalysisInputs ==
    {EmptyDict,
     [topic |-> "solar"],
     [research_findings |-> EmptyDict],
     [topic |-> "solar", research_findings |-> EmptyDict],
     [topic |-> "solar", research_findings |-> SynthesizeFindings("solar", "ok")]}

ContentInputs ==
    {EmptyDict}
    \cup {[topic |-> "solar", depth |-> depth, content_type |-> content_type] :
             depth \in {"basic", "medium", "deep"},
             content_type \in {"summary", "comprehensive_report", "analysis",
                               "executive_brief"}}

\* the input the engine builds for the Reviewer from a Writer's result
EngineQualityInput ==
    QualityInput("solar", EmptyDict, ContentProcess([topic |-> "solar"], "ok"))

QualityInputs ==
    {EmptyDict,
     [topic |-> "solar"],
     [topic |-> "wind"],
     [topic |-> "solar",
      content_output |-> [metadata |-> [word_count |-> 250]]],
     [topic |-> "solar",
      research_findings |-> SynthesizeFindings("solar", "ok"),
      analysis_results |-> [recommendations |-> Recommendations("solar")],
      content_output |-> [metadata |-> [word_count |-> GenReportWords]]],
     EngineQualityInput}

WorkerInputs(stage) ==
    CASE stage = "research" -> ResearchInputs
      [] stage = "analysis" -> AnalysisInputs
      [] stage = "content"  -> ContentInputs
      [] stage = "quality"  -> QualityInputs

\* what the process of a worker does with an input: gen_1 and gen_2 are
\* the outcomes of its generation calls
WorkerOutcome(stage, input, gen_1, gen_2) ==
    CASE stage = "research" -> ResearchOutcome(input, gen_1, gen_2)
      [] stage = "analysis" -> AnalysisOutcome(input)
      [] stage = "content"  -> ContentOutcome(input, gen_1)
      [] stage = "quality"  -> QualityOutcome(input, QUALITY_THRESHOLD)

\* a caller calls process(input) on a worker: update_status(WORKING)
CallProcess(stage, input) ==
    /\ worker_call.state # "working"
    /\ worker_call.n < MaxCalls
    /\ worker_call' = [state |-> "working", n |-> worker_call.n + 1,
                       stage |-> stage, input |-> input, outcome |-> EmptyDict]
    /\ agent_status' = [agent_status EXCEPT ![stage] = "working"]
    /\ UNCHANGED <<web_vars, helper_calls, QUALITY_THRESHOLD, gemini, agent_history,
                   active_workflows, workflow_data, call, pc, input_data,
                   stage_result, returned>>

\* the call ends: with a result, after update_status and log_result, or
\* with an exception
ReturnProcess ==
    /\ worker_call.state = "working"
    /\ \E gen_1 \in OutcomesOf(gemini), gen_2 \in OutcomesOf(gemini) :
          LET stage == worker_call.stage
              outcome == WorkerOutcome(stage, worker_call.input, gen_1, gen_2)
          IN IF outcome.raised
             THEN /\ worker_call' = [worker_call EXCEPT !.state = "raised",
                                                        !.outcome = outcome]
                  /\ UNCHANGED <<agent_status, agent_history>>
             ELSE /\ worker_call' = [worker_call EXCEPT !.state = "returned",
                                                        !.outcome = outcome]
                  /\ agent_status' =
                        [agent_status EXCEPT ![stage] = outcome.value.status]
                  /\ agent_history' =
                        [agent_history EXCEPT ![stage] =
                            log_result(@, outcome.value)]
    /\ UNCHANGED <<web_vars, helper_calls, QUALITY_THRESHOLD, gemini, active_workflows,
                   workflow_data, call, pc, input_data, stage_result, returned>>

InitWorkers == InitWith(ThresholdChoices, GeminiModes)

NextWorkers ==
    \/ \E stage \in StageNames : \E input \in WorkerInputs(stage) :
          CallProcess(stage, input)
    \/ ReturnProcess

SpecWorkers == InitWorkers /\ [][NextWorkers]_vars

(* ----------------------- direct helper calls --------------------------- *)

\* number of direct calls made on the workers' helper methods
MaxHelperCalls == 2

\* the sub-fields of a findings bundle the Analyst's confidence score counts
FindingsFields ==
    {"main_findings", "current_trends", "expert_consensus", "data_insights"}

\* findings bundles: every subset of the sub-fields present and non-empty,
\* and bundles whose sub-fields are present but empty
FindingsInputs ==
    {[f \in present |-> <<"item">>] : present \in SUBSET FindingsFields}
    \cup {[f \in FindingsFields |-> <<>>],
          [main_findings |-> <<"item">>, current_trends |-> <<>>]}

\* depths and report types, the last of each unknown to the tables
HelperDepths == {"basic", "medium", "deep", "expert"}

HelperContentTypes ==
    {"summary", "comprehensive_report", "analysis", "presentation",
     "executive_brief", "memo"}

\* a caller calls AnalysisAgent._calculate_confidence_score
CallCalculateConfidenceScore(research_findings) ==
    /\ Len(helper_calls) < MaxHelperCalls
    /\ helper_calls' = Append(helper_calls,
          [method |-> "_calculate_confidence_score",
           args |-> research_findings,
           value |-> ConfidenceScore(research_findings)])
    /\ UNCHANGED <<web_vars, worker_call, QUALITY_THRESHOLD, gemini,
                   agent_status, agent_history, active_workflows,
                   workflow_data, call, pc, input_data, stage_result, returned>>

\* a caller calls ContentAgent._get_target_length
CallGetTargetLength(depth, content_type) ==
    /\ Len(helper_calls) < MaxHelperCalls
    /\ helper_calls' = Append(helper_calls,
          [method |-> "_get_target_length",
           args |-> [depth |-> depth, content_type |-> content_type],
           value |-> get_target_length(depth, content_type)])
    /\ UNCHANGED <<web_vars, worker_call, QUALITY_THRESHOLD, gemini,
                   agent_status, agent_history, active_workflows,
                   workflow_data, call, pc, input_data, stage_result, returned>>

InitHelpers == InitWith({DefaultQualityThreshold}, {"up"})

NextHelpers ==
    \/ \E research_findings \in FindingsInputs :
          CallCalculateConfidenceScore(research_findings)
    \/ \E depth \in HelperDepths, content_type \in HelperContentTypes :
          CallGetTargetLength(depth, content_type)

SpecHelpers == InitHelpers /\ [][NextHelpers]_vars

(* ------------------------------ properties ----------------------------- *)

\* the run has returned to its caller
Returned(r) == pc[r] = "done"

\* the stage whose worker returned an error result to run r, if any
FailedStages(r) ==
    {k \in 1 .. 4 : /\ Stages[k] \in DOMAIN stage_result[r]
                    /\ stage_result[r][Stages[k]].status = "error"}

FirstStages(k) == {Stages[j] : j \in 1 .. k}

\* C1: when the worker of stage k returns an error result, the returned
\* record's agent_results holds exactly the entries of stages 1..k: stages
\* 1..k-1 completed, stage k in error, nothing for stages k+1..4.
C1_PartialResultPreservation ==
    \A r \in Runs : Returned(r) =>
        \A k \in FailedStages(r) :
            LET agent_results == returned[r].agent_results
            IN /\ DOMAIN agent_results = FirstStages(k)
               /\ \A j \in 1 .. k - 1 :
                     agent_results[Stages[j]].status = "completed"
               /\ agent_results[Stages[k]].status = "error"

\* a run returned after its content stage (k = 3) ended in error
C1_Witness ==
    \E r \in Runs : Returned(r) /\ 3 \in FailedStages(r)

\* C2: a failed run reports status failed, failed_at_step = k, the error
\* message of the failing stage, the failing stage's error result, and the
\* output of every stage before k in partial_results.
C2_FailedRunReport ==
    \A r \in Runs : Returned(r) =>
        \A k \in FailedStages(r) :
            LET res == returned[r]
                failing == stage_result[r][Stages[k]]
            IN /\ res.status = "failed"
               /\ res.execution_summary.failed_at_step = k
               /\ res.final_output.error
                     = PhaseLabel(Stages[k]) \o failing.output.error
               /\ res.execution_summary.error = res.final_output.error
               /\ res.agent_results[Stages[k]] = failing
               /\ DOMAIN res.final_output.partial_results = FirstStages(k - 1)
               /\ \A j \in 1 .. k - 1 :
                     res.final_output.partial_results[Stages[j]].output
                        = stage_result[r][Stages[j]].output

\* a run that failed at the content stage returned the research and
\* analysis outputs as partial results
C2_Witness ==
    \E r \in Runs :
        /\ Returned(r)
        /\ 3 \in FailedStages(r)
        /\ DOMAIN returned[r].final_output.partial_results
              = {"research", "analysis"}

\* every stage returned a completed result to run r
AllStagesCompleted(r) ==
    \A stage \in StageNames :
        /\ stage \in DOMAIN stage_result[r]
        /\ stage_result[r][stage].status = "completed"

\* C3: a run ends completed if and only if all four stages returned a
\* completed result; it then has four entries in agent_results and the
\* assembled final output, whatever the quality score is relative to the
\* threshold.
C3_CompletedIffAllStages ==
    \A r \in Runs : Returned(r) =>
        /\ returned[r].status = "completed" <=> AllStagesCompleted(r)
        /\ AllStagesCompleted(r) =>
              /\ DOMAIN returned[r].agent_results = StageNames
              /\ DOMAIN returned[r].final_output =
                    {"topic", "research_phase", "analysis_phase",
                     "content_phase", "quality_phase", "workflow_metadata"}
              /\ returned[r].final_output.quality_phase.quality_score
                    = stage_result[r]["quality"].output.overall_quality_score
              /\ returned[r].final_output.content_phase.report_content
                    = stage_result[r]["content"].output.report_content

\* a run whose quality score is below the threshold returned completed
C3_Witness ==
    \E r \in Runs :
        /\ Returned(r)
        /\ returned[r].status = "completed"
        /\ QualityScore(stage_result[r]["quality"]) < QUALITY_THRESHOLD

\* C4 (as claimed): when every generation call of the research worker
\* fails, the run ends failed at step 1 with only the research entry, in
\* error, in agent_results.
C4_ScenarioB ==
    \A r \in Runs : (Returned(r) /\ gemini = "down") =>
        /\ returned[r].status = "failed"
        /\ workflow_data[r].current_step = 1
        /\ DOMAIN returned[r].agent_results = {"research"}
        /\ returned[r].agent_results["research"].status = "error"

\* the record of run r exists (the run has been registered)
Registered(r) == pc[r] \notin {"idle", "started"}

\* the stage a run is inside the worker of
WorkerAt(p) ==
    CASE p = "in_research" -> "research"
      [] p = "in_analysis" -> "analysis"
      [] p = "in_content"  -> "content"
      [] p = "in_quality"  -> "quality"

InWorker == {"in_research", "in_analysis", "in_content", "in_quality"}

\* run r takes the step that handles an exception raised at its stage
HandlesRaise(r) ==
    /\ pc[r] \in AfterStage
    /\ Raised(r) # {}
    /\ pc'[r] # pc[r]

EntersStage(r) == pc'[r] \in InWorker /\ pc[r] \notin InWorker

\* C6: current_step starts at 0, never decreases, advances by exactly 1
\* each time a stage is entered and never exceeds 4.
C6_MonotonicProgress ==
    /\ [](\A r \in Runs : Registered(r) =>
             workflow_data[r].current_step \in 0 .. 4)
    /\ [][\A r \in Runs :
             /\ (~ Registered(r) /\ Registered(r)') =>
                   workflow_data'[r].current_step = 0
             /\ (Registered(r) /\ EntersStage(r)) =>
                   workflow_data'[r].current_step
                      = workflow_data[r].current_step + 1
             /\ (Registered(r) /\ ~ EntersStage(r)) =>
                   workflow_data'[r].current_step
                      = workflow_data[r].current_step]_vars

\* a run has entered the fourth stage
C6_Witness ==
    \E r \in Runs : Registered(r) /\ workflow_data[r].current_step = 4

\* the moves of a record's status
StatusMoves ==
    {<<"initialized", "running">>, <<"running", "completed">>,
     <<"running", "failed">>}

Terminal == {"completed", "failed"}

\* C7: a record's status moves only initialized -> running -> completed or
\* failed and is never paused; agent_results only grows; once the status
\* is completed or failed, current_step and agent_results no longer change.
C7_RecordLifecycle ==
    [][\A r \in Runs :
          /\ Registered(r)' => workflow_data'[r].status # "paused"
          /\ (~ Registered(r) /\ Registered(r)') =>
                workflow_data'[r].status = "initialized"
          /\ Registered(r) =>
                LET old == workflow_data[r]
                    new == workflow_data'[r]
                IN /\ \/ new.status = old.status
                      \/ <<old.status, new.status>> \in StatusMoves
                   /\ \A stage \in DOMAIN old.agent_results :
                         /\ stage \in DOMAIN new.agent_results
                         /\ new.agent_results[stage] = old.agent_results[stage]
                   /\ old.status \in Terminal =>
                         /\ new.status = old.status
                         /\ new.current_step = old.current_step
                         /\ new.agent_results = old.agent_results]_vars

\* one run has ended (one completed or failed record exists) while another
\* run is still inside a worker
C7_Witness ==
    \E r, q \in Runs :
        /\ Returned(r)
        /\ workflow_data[r].status \in Terminal
        /\ DOMAIN workflow_data[r].agent_results # {}
        /\ pc[q] \in InWorker

\* the input of the stage-k worker carries the output of stage j
CarriesOutput(input, r, j) ==
    CASE j = 1 ->
            /\ "research_findings" \in DOMAIN input
            /\ input["research_findings"]
                  = stage_result[r]["research"].output["research_findings"]
      [] j = 2 ->
            /\ "analysis_results" \in DOMAIN input
            /\ input["analysis_results"] = stage_result[r]["analysis"].output
      [] j = 3 ->
            \E key \in {"content", "content_output"} \cap DOMAIN input :
                input[key] \in {stage_result[r]["content"].output,
                                stage_result[r]["content"].output["report_content"]}

\* C8 (as claimed): the input passed to the worker of stage k holds the
\* topic and the output of every completed stage before k; in particular
\* the quality stage's input holds the research, analysis and content
\* outputs.
C8_StageInputComposition ==
    \A r \in Runs : pc[r] \in InWorker =>
        LET k == StepOf(WorkerAt(pc[r]))
        IN /\ "topic" \in DOMAIN input_data[r]
           /\ input_data[r]["topic"] = call[r].topic
           /\ \A j \in 1 .. k - 1 : CarriesOutput(input_data[r], r, j)

\* the topics a text names
TextTopics(text) == {text.topic} \ {""}

\* the topics named anywhere in the output of a worker's result
ResultTopics(result) ==
    LET out == result.output
    IN (IF "topic" \in DOMAIN out THEN {out["topic"]} ELSE {})
       \cup (IF "research_findings" \in DOMAIN out
             THEN TextTopics(out["research_findings"].executive_summary)
                  \cup TextTopics(out["research_findings"].synthesis_text)
                  \cup {out["search_queries_used"][i][1] :
                           i \in DOMAIN out["search_queries_used"]}
                  \cup {out["sources"][i][1][1] : i \in DOMAIN out["sources"]}
             ELSE {})
       \cup (IF "analytical_insights" \in DOMAIN out
             THEN TextTopics(out["analytical_insights"])
                  \cup TextTopics(out["trend_analysis"])
                  \cup TextTopics(out["synthesis"])
                  \cup {out["recommendations"][i].action[3] :
                           i \in DOMAIN out["recommendations"]}
             ELSE {})
       \cup (IF "report_content" \in DOMAIN out
             THEN {out["report_content"].title[2]}
                  \cup TextTopics(out["report_content"].full_report)
             ELSE {})
       \cup (IF "quality_report" \in DOMAIN out
             THEN {out["quality_report"].summary[1]}
             ELSE {})

\* no other registered run uses the workflow id of run r
HasOwnId(r) ==
    \A q \in Runs \ {r} :
        Registered(q) => workflow_data[q].id # workflow_data[r].id

\* C9: for runs with different workflow ids and topics, interleaved in any
\* way on one orchestrator, the record registered under a run's id holds
\* that run's topic and only the results its own worker calls returned,
\* none of which names another run's topic.
C9_NoCrossContamination ==
    \A r \in Runs : (Registered(r) /\ HasOwnId(r)) =>
        LET record == workflow_data[active_workflows[workflow_data[r].id]]
        IN /\ record.topic = call[r].topic
           /\ \A q \in Runs \ {r} : Registered(q) => record.topic # call[q].topic
           /\ DOMAIN record.agent_results = DOMAIN stage_result[r]
           /\ \A stage \in DOMAIN record.agent_results :
                 /\ record.agent_results[stage] = stage_result[r][stage]
                 /\ ResultTopics(record.agent_results[stage]) \subseteq
                       {call[r].topic}

\* two runs with different ids are inside workers at the same time, each
\* with results already recorded
C9_Witness ==
    \E r, q \in Runs :
        /\ r # q
        /\ pc[r] = "in_quality"
        /\ pc[q] = "in_content"
        /\ workflow_data[r].id # workflow_data[q].id
        /\ ResultTopics(workflow_data[r].agent_results["content"])
              = {call[r].topic}

\* C10 (as claimed): whenever a run is between a worker's working update
\* and its completed / error update, that worker's status reads working.
C10_WorkerStatusRunScoped ==
    \A r \in Runs :
        pc[r] \in InWorker => agent_status[WorkerAt(pc[r])] = "working"

\* the runs started by a start_workflow request answered with this id
SubmittedAs(workflow_id) ==
    {r \in Runs : request[r] # EmptyDict /\ request[r].workflow_id = workflow_id}

\* the run has reached completed or failed
ReachedTerminal(r) == Registered(r) /\ workflow_data[r].status \in Terminal

\* C11: a result lookup answers "not found" for an id that was never
\* submitted, "not ready" for a submitted id whose run has not reached
\* completed or failed, and a result payload only for a run that is
\* completed or failed; a status lookup of an unknown id answers not found
\* (None on the orchestrator).
C11_LookupOutcomes ==
    \A workflow_id \in LookupIds :
        LET answer == get_workflow_results(workflow_id)
        IN /\ SubmittedAs(workflow_id) = {} =>
                 /\ answer = NotFound
                 /\ web_get_workflow_status(workflow_id) = NotFound
                 /\ get_workflow_status(workflow_id) = {}
           /\ \A r \in SubmittedAs(workflow_id) :
                 /\ answer # NotFound
                 /\ ~ ReachedTerminal(r) => answer = NotReady
                 /\ answer # NotReady =>
                       /\ ReachedTerminal(r)
                       /\ answer.success
                       /\ answer.results.workflow_id = workflow_id
                       /\ answer.results.status = workflow_data[r].status
                       /\ answer.results.final_output = returned[r].final_output

\* a client has received the result payload of a failed run while the
\* lookup of another submitted run answers not ready and the lookup of an
\* id never submitted answers not found
C11_Witness ==
    /\ "results" \in DOMAIN response
    /\ response.results.status = "failed"
    /\ \E r \in Runs : /\ SubmittedAs(UUID(r)) = {r}
                       /\ get_workflow_results(UUID(r)) = NotReady
    /\ get_workflow_results(UnknownId) = NotFound

\* C12 (as claimed): once a run is registered, get_workflow_status of its
\* workflow id returns that run's record from then on, also when the
\* workflow ids are supplied by the caller.
C12_RegistryPersistence ==
    \A r \in Runs :
        Registered(r) =>
            get_workflow_status(workflow_data[r].id) = {workflow_data[r]}

\* a direct call of process has ended
CallEnded == worker_call.state \in {"returned", "raised"}

\* C13: for each worker and every input mapping, whatever the generation
\* calls do, process returns a result and never propagates an exception.
C13_NoExceptionEscapesWorker ==
    CallEnded =>
        /\ worker_call.state = "returned"
        /\ ~ worker_call.outcome.raised
        /\ worker_call.outcome.value.agent_name = AgentName(worker_call.stage)
        /\ worker_call.outcome.value.status \in AgentStatus

\* the Researcher, with every generation call failing and an input whose
\* processing raises, returned an error result
C13_Witness ==
    /\ worker_call.state = "returned"
    /\ worker_call.stage = "research"
    /\ gemini = "down"
    /\ worker_call.outcome.value.status = "error"
    /\ worker_call.outcome.value.metadata.error_type = "TypeError"

\* the call reached the worker's generation calls
ReachesGeneration ==
    \/ /\ worker_call.stage = "research"
       /\ ~ ResearchBody(worker_call.input, "ok", "ok").raised
    \/ /\ worker_call.stage = "content"
       /\ ~ ContentBody(worker_call.input, "ok").raised

\* C14 (as claimed): when every generation call of the Researcher or the
\* Writer raises, the returned result has status error and its output
\* carries an error message.
C14_GenerationFailureIsError ==
    (CallEnded /\ gemini = "down" /\ ReachesGeneration) =>
        /\ worker_call.state = "returned"
        /\ worker_call.outcome.value.status = "error"
        /\ "error" \in DOMAIN worker_call.outcome.value.output

\* C15 (as claimed): when a required field of the input is missing, process
\* raises an input-validation error: the call ends with the exception and
\* no result is produced (so none is appended to the worker's history).
C15_InvalidInputRaised ==
    (/\ CallEnded
     /\ worker_call.stage \in {"research", "analysis", "quality"}
     /\ ~ validate_input(get_required_fields(worker_call.stage),
                         worker_call.input)) =>
        /\ worker_call.state = "raised"
        /\ worker_call.outcome.error_type = "ValueError"

\* every result the workers have returned
ReturnedResults ==
    UNION {{agent_history[stage][i] : i \in DOMAIN agent_history[stage]} :
              stage \in StageNames}

\* C16: every result a worker's process returns has status completed or
\* error, and its status is error if and only if its output consists of
\* exactly one field, error.
C16_WorkerResultInvariant ==
    \A result \in ReturnedResults :
        /\ result.status \in {"completed", "error"}
        /\ result.status = "error" <=> DOMAIN result.output = {"error"}

\* the workers have returned an error result and a completed result
C16_Witness ==
    /\ \E result \in ReturnedResults : result.status = "error"
    /\ \E result \in ReturnedResults :
          result.status = "completed" /\ result.agent_name = "QualityAgent"

\* the content stage of run r returned a completed result
ContentCompleted(r) ==
    /\ "content" \in DOMAIN stage_result[r]
    /\ stage_result[r]["content"].status = "completed"

\* C17 (as claimed): for a run started with depth d, the Writer's recorded
\* research_depth is d and its target length is the table value for d and
\* the run's report type.
C17_DepthReachesWriter ==
    \A r \in Runs : ContentCompleted(r) =>
        LET depth == Get(call[r].kwargs, "depth", "medium")
            content_type ==
                Get(call[r].kwargs, "content_type", "comprehensive_report")
            result == stage_result[r]["content"]
        IN /\ result.output.research_depth = depth
           /\ result.metadata.research_depth = depth
           /\ result.metadata.target_length
                 = get_target_length(depth, content_type)

\* C18 (as claimed): for every depth and report type, when generation
\* succeeds the Writer returns a completed result with report text, a word
\* count and the section titles of the combination.
C18_EveryCombinationCompletes ==
    (/\ CallEnded
     /\ worker_call.stage = "content"
     /\ worker_call.input # EmptyDict
     /\ gemini = "up") =>
        /\ worker_call.state = "returned"
        /\ worker_call.outcome.value.status = "completed"
        /\ worker_call.outcome.value.output.word_count > 0
        /\ Len(worker_call.outcome.value.output.report_content.sections) > 0

\* C19 (as claimed): for a completed run whose quality score is below the
\* threshold, the quality section of the final output shows the Reviewer's
\* approval decision, not approved.
C19_ApprovalSurfaced ==
    \A r \in Runs :
        (/\ Returned(r)
         /\ returned[r].status = "completed"
         /\ QualityScore(stage_result[r]["quality"]) < QUALITY_THRESHOLD) =>
            LET quality_phase == returned[r].final_output.quality_phase
            IN \/ /\ "approved" \in DOMAIN quality_phase
                  /\ quality_phase["approved"] = FALSE
               \/ /\ "meets_threshold" \in DOMAIN quality_phase
                  /\ quality_phase["meets_threshold"] = FALSE
               \/ /\ "approval_status" \in DOMAIN quality_phase
                  /\ quality_phase["approval_status"] = "needs_improvement"

\* the completed results the Reviewer has returned
ReviewerResults ==
    {agent_history["quality"][i] : i \in DOMAIN agent_history["quality"]}

\* C20: in every completed result of the Reviewer, approval_status is
\* approved and metadata.meets_threshold is true if and only if the overall
\* score is at least the configured threshold; a score equal to the
\* threshold is approved.
C20_ThresholdGating ==
    \A result \in ReviewerResults : result.status = "completed" =>
        LET approved ==
                result.output.overall_quality_score >= QUALITY_THRESHOLD
        IN /\ result.output.approval_status = "approved" <=> approved
           /\ result.output.approval_status \in {"approved", "needs_improvement"}
           /\ result.metadata.meets_threshold <=> approved
           /\ result.metadata.quality_threshold = QUALITY_THRESHOLD

\* the Reviewer approved a result whose score equals the threshold
C20_Witness ==
    \E result \in ReviewerResults :
        /\ result.status = "completed"
        /\ result.output.overall_quality_score = QUALITY_THRESHOLD
        /\ result.output.approval_status = "approved"

\* the run returned a completed record
CompletedRun(r) == Returned(r) /\ returned[r].status = "completed"

\* C21 (as claimed): in a completed run the Reviewer's result carries a
\* letter grade, and the quality_grade of the final output is that grade.
C21_GradeFromReviewer ==
    \A r \in Runs : CompletedRun(r) =>
        LET output == stage_result[r]["quality"].output
        IN /\ "quality_grade" \in DOMAIN output
           /\ returned[r].final_output.quality_phase.quality_grade
                 = output["quality_grade"]

\* the calls made so far of one helper method
HelperCallsOf(method) ==
    {helper_calls[i] : i \in {j \in DOMAIN helper_calls :
                                 helper_calls[j].method = method}}

\* the increment of each sub-field, in tenths
Increment(field) == IF field = "main_findings" THEN 2 ELSE 1

\* the sum of the increments of a set of sub-fields
RECURSIVE SumIncrements(_)
SumIncrements(fields) ==
    IF fields = {} THEN 0
    ELSE LET f == CHOOSE x \in fields : TRUE
         IN Increment(f) + SumIncrements(fields \ {f})

\* the sub-fields of a bundle that are present and not empty
PresentFields(research_findings) ==
    {f \in FindingsFields \cap DOMAIN research_findings :
        research_findings[f] # <<>>}

\* C22: for every subset of the four sub-fields present, the confidence
\* score stands for 0.5 plus 0.2 for main_findings plus 0.1 for each other
\* present sub-field, capped at 1.0, and lies in [0, 1]; the returned float
\* is that decimal or one unit in the last place below it.
C22_ConfidenceBound ==
    \A c \in HelperCallsOf("_calculate_confidence_score") :
        /\ c.value.tenths = Min(5 + SumIncrements(PresentFields(c.args)), 10)
        /\ c.value.tenths >= 0
        /\ c.value.tenths <= 10

\* the score was computed for a bundle with all four sub-fields, where the
\* sum reaches the cap, and for a bundle with none of them
C22_Witness ==
    /\ \E c \in HelperCallsOf("_calculate_confidence_score") :
          PresentFields(c.args) = FindingsFields /\ c.value.tenths = 10
    /\ \E c \in HelperCallsOf("_calculate_confidence_score") :
          PresentFields(c.args) = {} /\ c.value = Float(5, FALSE)

\* the tables of the Writer's target length: words per report type, and
\* the multiplier of each depth in tenths
BaseLengthTable ==
    [summary |-> 500, comprehensive_report |-> 1800, analysis |-> 1200,
     presentation |-> 800, executive_brief |-> 600]

DepthMultiplierTable == [basic |-> 6, medium |-> 10, deep |-> 18]

\* C23: for every depth and report type the target length is the integer
\* part of the table base length (1500 for an unknown type) times the table
\* multiplier (1.0 for an unknown depth), and two calls with the same pair
\* return the same value.
C23_TargetLengthDeterminism ==
    \A c \in HelperCallsOf("_get_target_length") :
        /\ c.value = (Get(BaseLengthTable, c.args.content_type, 1500)
                      * Get(DepthMultiplierTable, c.args.depth, 10)) \div 10
        /\ \A d \in HelperCallsOf("_get_target_length") :
              d.args = c.args => d.value = c.value

\* the target length was asked twice for a pair neither table knows and
\* both calls returned the default base length
C23_Witness ==
    /\ Len(helper_calls) = 2
    /\ \A i \in 1 .. 2 :
          /\ helper_calls[i].method = "_get_target_length"
          /\ helper_calls[i].args = [depth |-> "expert", content_type |-> "memo"]
          /\ helper_calls[i].value = 1500

\* the worker a direct call is running on, if any
Busy == IF worker_call.state = "working" THEN {worker_call.stage} ELSE {}

\* the last entry of a worker's history
LastResult(stage) == agent_history[stage][Len(agent_history[stage])]

\* the total number of results in the four histories
RECURSIVE HistoryTotal(_)
HistoryTotal(stages) ==
    IF stages = {} THEN 0
    ELSE LET stage == CHOOSE x \in stages : TRUE
         IN Len(agent_history[stage]) + HistoryTotal(stages \ {stage})

\* between calls: the histories hold one result per finished call, a worker
\* never called is idle with an empty history, and a worker that has been
\* called has the status of its last result
C24_BetweenCalls ==
    /\ HistoryTotal(StageNames) = worker_call.n - Cardinality(Busy)
    /\ \A stage \in StageNames \ Busy :
          IF agent_history[stage] = <<>>
          THEN agent_status[stage] = "idle"
          ELSE /\ agent_status[stage] = LastResult(stage).status
               /\ agent_status[stage] \in {"completed", "error"}
    /\ \A stage \in Busy : agent_status[stage] = "working"

\* one step of a call: its start sets the worker's status to working and
\* adds nothing to a history; its end appends the returned result, and only
\* that, to the worker's history and sets the status to the result's
\* status; no step leaves a worker idle that was not idle
C24_CallStep ==
    /\ worker_call'.state = "working" =>
          /\ agent_status'[worker_call'.stage] = "working"
          /\ agent_history' = agent_history
    /\ worker_call.state = "working" =>
          LET stage == worker_call.stage
          IN /\ worker_call'.state = "returned"
             /\ agent_history'[stage] =
                   Append(agent_history[stage], worker_call'.outcome.value)
             /\ agent_status'[stage] = worker_call'.outcome.value.status
             /\ agent_status'[stage] \in {"completed", "error"}
             /\ \A other \in StageNames \ {stage} :
                   /\ agent_history'[other] = agent_history[other]
                   /\ agent_status'[other] = agent_status[other]
    /\ \A stage \in StageNames :
          agent_status[stage] # "idle" => agent_status'[stage] # "idle"

\* C24: each process call first sets the worker's status to working, then
\* sets it to the status of the result it returns (completed or error) and
\* appends exactly that result to the worker's history; with no concurrent
\* calls the history length is the number of finished calls, the status is
\* that of the last history entry, and a worker once called is never idle
\* again.
C24_PerCallSideEffects == [] C24_BetweenCalls /\ [][C24_CallStep]_vars

\* the Analyst was called twice: it returned a completed result, then an
\* error result, and its status is error
C24_Witness ==
    /\ worker_call.state = "returned"
    /\ Len(agent_history["analysis"]) = 2
    /\ agent_history["analysis"][1].status = "completed"
    /\ agent_history["analysis"][2].status = "error"
    /\ agent_status["analysis"] = "error"

\* the stages after stage k
LaterStages(k) == {Stages[j] : j \in k + 1 .. 4}

\* after stage k of the run returned an error result: the step counter is
\* k, no later stage has a result, and the workers of the later stages are
\* as the orchestrator created them
C25_AfterFailure ==
    \A k \in FailedStages(1) :
        /\ workflow_data[1].current_step = k
        /\ DOMAIN stage_result[1] \cap LaterStages(k) = {}
        /\ Returned(1) => returned[1].execution_summary.failed_at_step = k
        /\ \A stage \in LaterStages(k) :
              /\ agent_status[stage] = "idle"
              /\ agent_history[stage] = <<>>

\* a step taken after stage k returned an error result changes neither
\* the step counter nor a worker of a later stage
C25_StepAfterFailure ==
    \A k \in FailedStages(1) :
        /\ workflow_data'[1].current_step = k
        /\ \A stage \in LaterStages(k) :
              /\ agent_status'[stage] = agent_status[stage]
              /\ agent_history'[stage] = agent_history[stage]

\* C25: if stage k of a run returns an error result, the engine calls no
\* worker of the stages k+1..4 in that run: their status and history are
\* left as they were, and current_step stays at k.
C25_FailFastFrame == [] C25_AfterFailure /\ [][C25_StepAfterFailure]_vars

\* a run whose content stage returned an error result has returned, and
\* the Reviewer was never called
C25_Witness ==
    /\ Returned(1)
    /\ FailedStages(1) = {3}
    /\ returned[1].status = "failed"
    /\ agent_status["quality"] = "idle"
    /\ agent_status["analysis"] = "completed"

\* the current_step a status poll of the run's workflow id reports
PolledStep(r) == web_get_workflow_status(request[r].workflow_id).status.current_step

\* C26 (as claimed): while a run started through the web interface is in
\* progress, the polled current_step is the current_step of the engine's
\* record of that workflow id, and for a run that ended failed at stage k
\* the polled current_step is k.
C26_PolledStep ==
    \A r \in Runs :
        /\ (/\ Registered(r)
            /\ request[r] # EmptyDict
            /\ workflow_data[r].status = "running") =>
              PolledStep(r) = workflow_data[r].current_step
        /\ (/\ pc[r] = "stored"
            /\ returned[r].status = "failed") =>
              PolledStep(r) = returned[r].execution_summary.failed_at_step

\* start_workflow has accepted the request of run r and started its thread
Started(r) == request[r] # EmptyDict

\* a status poll of the run's workflow id answers completed or failed
PolledTerminal(r) ==
    /\ Started(r)
    /\ web_get_workflow_status(request[r].workflow_id).status.status \in Terminal

\* the step calls the worker of `stage` for run r
Invokes(r, stage) ==
    /\ pc'[r] # pc[r]
    /\ pc'[r] \in InWorker
    /\ WorkerAt(pc'[r]) = stage

\* a worker is called for a run only after the workers of the stages
\* before it, and not again: at most four calls, one per stage
C27_OneCallPerStage ==
    \A r \in Runs : \A stage \in StageNames :
        Invokes(r, stage) =>
            DOMAIN stage_result[r] = FirstStages(StepOf(stage) - 1)

\* C27: every started run eventually reaches completed or failed, after at
\* most four worker calls, one per stage and none repeated; for a run
\* started through the web interface the thread eventually replaces the
\* temporary entry, so that polling observes completed or failed from then
\* on.
C27_Termination ==
    /\ <>[] (\A r \in Runs : Started(r) =>
                 ReachedTerminal(r) /\ PolledTerminal(r))
    /\ [][C27_OneCallPerStage]_vars

\* the threads of two requests have ended: polling the first answers
\* failed and polling the second completed, after four worker calls
C27_Witness ==
    /\ pc[1] = "stored" /\ pc[2] = "stored"
    /\ web_get_workflow_status(request[1].workflow_id).status.status = "failed"
    /\ web_get_workflow_status(request[2].workflow_id).status.status = "completed"
    /\ DOMAIN stage_result[2] = StageNames

\* the elements of a list
Elements(s) == {s[i] : i \in DOMAIN s}

\* C28 (as claimed): in the partial output of a failed run, completed_phases
\* lists exactly the stages whose result has status completed, which are
\* the keys of partial_results; the stage that failed is not listed.
C28_CompletedPhases ==
    \A r \in Runs :
        (Returned(r) /\ returned[r].status = "failed") =>
            LET output == returned[r].final_output
                agent_results == returned[r].agent_results
            IN /\ Elements(output.completed_phases)
                     = {p \in DOMAIN agent_results :
                           agent_results[p].status = "completed"}
               /\ Elements(output.completed_phases)
                     = DOMAIN output.partial_results
               /\ \A k \in FailedStages(r) :
                     Stages[k] \notin Elements(output.completed_phases)

\* C29: the Reviewer's overall score does not depend on what it reviews:
\* any two inputs with a topic, whatever findings, analysis results or
\* content they hold, get the same overall_quality_score (86.1) and, under
\* the configured threshold, the same approval; this includes the input the
\* engine builds, which carries the report under the key content.
C29_ScoreIgnoresInput ==
    \A a \in ReviewerResults : \A b \in ReviewerResults :
        (a.status = "completed" /\ b.status = "completed") =>
            /\ a.output.overall_quality_score = b.output.overall_quality_score
            /\ a.output.overall_quality_score = 861
            /\ a.output.approval_status = b.output.approval_status
            /\ a.metadata.meets_threshold = b.metadata.meets_threshold

\* the Reviewer was called with the engine's input, which has the report
\* under content and no content_output, and with an input whose
\* content_output is a report of 250 words, and returned two completed
\* results
C29_Witness ==
    /\ worker_call.state = "returned"
    /\ worker_call.stage = "quality"
    /\ worker_call.input = EngineQualityInput
    /\ "content" \in DOMAIN worker_call.input
    /\ "content_output" \notin DOMAIN worker_call.input
    /\ Len(agent_history["quality"]) = 2
    /\ agent_history["quality"][1].status = "completed"
    /\ agent_history["quality"][1].output.content_quality.completeness_score = 50
    /\ agent_history["quality"][2].status = "completed"
    /\ agent_history["quality"][2].output.content_quality.completeness_score = 0

\* the analysis stage of run r returned a completed result
AnalysisCompleted(r) ==
    /\ "analysis" \in DOMAIN stage_result[r]
    /\ stage_result[r]["analysis"].status = "completed"

\* C30: in every pipeline run whose analysis stage completes, the findings
\* bundle of the Researcher has a non-empty main_findings and none of
\* current_trends, expert_consensus and data_insights, and the Analyst's
\* confidence score is 0.5 + 0.2 = 0.7, below the cap, whether generation
\* succeeded or fell back.
C30_PipelineConfidence ==
    \A r \in Runs : AnalysisCompleted(r) =>
        LET findings == stage_result[r]["research"].output.research_findings
            score == stage_result[r]["analysis"].output.confidence_score
        IN /\ PresentFields(findings) = {"main_findings"}
           /\ DOMAIN findings \cap FindingsFields = {"main_findings"}
           /\ score = Float(7, FALSE)
           /\ CompletedRun(r) =>
                 returned[r].final_output.analysis_phase.confidence_score = score

\* a run completed with every generation call failing, on the Researcher's
\* fallback bundle, with confidence 0.7 in its final output
C30_Witness ==
    /\ CompletedRun(1)
    /\ gemini = "down"
    /\ Len(stage_result[1]["research"].output.research_findings.main_findings) = 1
    /\ returned[1].final_output.analysis_phase.confidence_score = Float(7, FALSE)

=============================================================================
